---- MODULE Spec2Model ----
(***************************************************************************)
(* Deep-link handling of the Polo logging application.                     *)
(*                                                                         *)
(*   src/src/deep-linking/DeepLinkUtils.js    parseDeepLinkURL,            *)
(*                                            parseFrequency,              *)
(*                                            buildSuggestedQSO            *)
(*   src/src/deep-linking/DeepLinkHandler.js  useDeepLinkHandler,          *)
(*                                            handleDeepLink,              *)
(*                                            findOrCreateOperation        *)
(*                                                                         *)
(* A JavaScript string is a sequence of one-character strings.  The values *)
(* undefined and null are the one-element sequences <<"undefined">> and    *)
(* <<"null">>, which no sequence of characters equals.  A JavaScript       *)
(* number-or-undefined is a record [tag, n] with tag "num", "NaN" or       *)
(* "undefined".                                                            *)
(***************************************************************************)
EXTENDS Integers, Sequences, FiniteSets, TLC

VARIABLES
    link,       \* the link a companion application sends (its logical parts)
    url,        \* the URL string handed to parseDeepLinkURL
    parsed,     \* the value parseDeepLinkURL returned, or NotCalled
    args,       \* the argument of the last buildSuggestedQSO call
    qso,        \* the value buildSuggestedQSO returned, or NotCalled
    clock,      \* Date.now()
    keys,       \* the _suggestedKey of every buildSuggestedQSO call so far
    processedUrlRef,        \* processedUrlRef.current
    initialUrlCheckedRef,   \* initialUrlCheckedRef.current
    operations,             \* the operations of the store, oldest first
    handlerOps,     \* the operations the current handleDeepLink closes over
    initialURL,     \* what Linking.getInitialURL() resolves to
    tasks,          \* the promises and timers that are pending
    deliveries,     \* every URL handed to handleDeepLink so far
    parseLog,       \* the URLs handed to parseDeepLinkURL by handleDeepLink
    opLog,          \* the URLs for which findOrCreateOperation was called
    navLog          \* the navigations to 'Operation' made so far

hookVars == <<processedUrlRef, initialUrlCheckedRef, operations, handlerOps,
              initialURL, tasks, deliveries, parseLog, opLog, navLog>>

vars == <<link, url, parsed, args, qso, clock, keys, hookVars>>

----------------------------------------------------------------------------
(* JavaScript values *)

undefined == <<"undefined">>
null == <<"null">>
NotCalled == [tag |-> "notCalled"]

NumUndefined == [tag |-> "undefined", n |-> 0]
NaN == [tag |-> "NaN", n |-> 0]
Num(k) == [tag |-> "num", n |-> k]

\* ToBoolean of a string-or-undefined-or-null
Truthy(s) == s # undefined /\ s # null /\ s # <<>>

\* ToBoolean of a number-or-undefined
TruthyNum(x) == x.tag = "num" /\ x.n # 0

\* a || undefined
OrUndefined(s) == IF Truthy(s) THEN s ELSE undefined

----------------------------------------------------------------------------
(* Characters *)

Ascii ==
    <<" ","!","\"","#","$","%","&","'","(",")","*","+",",","-",".","/",
      "0","1","2","3","4","5","6","7","8","9",":",";","<","=",">","?",
      "@","A","B","C","D","E","F","G","H","I","J","K","L","M","N","O",
      "P","Q","R","S","T","U","V","W","X","Y","Z","[","\\","]","^","_",
      "<grave>","a","b","c","d","e","f","g","h","i","j","k","l","m","n","o",
      "p","q","r","s","t","u","v","w","x","y","z","{","|","}","~">>

FirstAscii == 32

\* the code unit of a printable ASCII character, 0 for any other (the
\* grave accent, code 96, is spelled "<grave>")
CodeOf(c) ==
    IF \E i \in 1..Len(Ascii) : Ascii[i] = c
    THEN (CHOOSE i \in 1..Len(Ascii) : Ascii[i] = c) + FirstAscii - 1
    ELSE 0

\* the character of a code unit; one replacement character outside
\* printable ASCII
CharOf(code) ==
    IF code >= FirstAscii /\ code < FirstAscii + Len(Ascii)
    THEN Ascii[code - FirstAscii + 1]
    ELSE "<?>"

\* the characters whose code units lie from that of lo to that of hi
CharRange(lo, hi) ==
    {Ascii[i] : i \in (CodeOf(lo) - FirstAscii + 1)..(CodeOf(hi) - FirstAscii + 1)}

UpperLetters == CharRange("A", "Z")
LowerLetters == CharRange("a", "z")
Digits == CharRange("0", "9")

IsUpper(c) == c \in UpperLetters
IsLower(c) == c \in LowerLetters
IsDigit(c) == c \in Digits

CaseGap == 32

\* String.prototype.toLowerCase
toLowerCase(s) ==
    [i \in 1..Len(s) |-> IF IsUpper(s[i]) THEN CharOf(CodeOf(s[i]) + CaseGap)
                                          ELSE s[i]]

\* toUpperCase leaving the text as it is
toUpperCaseKeep(s) == s

\* String.prototype.toUpperCase
toUpperCase(s) ==
    [i \in 1..Len(s) |-> IF IsLower(s[i]) THEN CharOf(CodeOf(s[i]) - CaseGap)
                                          ELSE s[i]]

\* x?.toLowerCase() and x?.toUpperCase(): undefined for null and undefined
OptLower(s) == IF s = null \/ s = undefined THEN undefined ELSE toLowerCase(s)
OptUpper(s) == IF s = null \/ s = undefined THEN undefined ELSE toUpperCase(s)

----------------------------------------------------------------------------
(* Strings *)

\* startsWith accepting every string
startsWithAlways(s, p) == TRUE

\* String.prototype.startsWith
startsWith(s, p) == Len(s) >= Len(p) /\ SubSeq(s, 1, Len(p)) = p

\* String.prototype.slice(n)
slice(s, n) == SubSeq(s, n + 1, Len(s))

\* the first index of character c in s, 0 when there is none
IndexOf(s, c) ==
    IF \E i \in 1..Len(s) : s[i] = c
    THEN CHOOSE i \in 1..Len(s) : s[i] = c /\ \A j \in 1..(i - 1) : s[j] # c
    ELSE 0

\* String.prototype.split(c): every piece between two separators
RECURSIVE split(_, _)
split(s, c) ==
    LET i == IndexOf(s, c)
    IN  IF i = 0 THEN <<s>>
        ELSE <<SubSeq(s, 1, i - 1)>> \o split(SubSeq(s, i + 1, Len(s)), c)

\* Number.prototype.toString of a non-negative integer
RECURSIVE NumberToString(_)
NumberToString(k) ==
    IF k < 10 THEN <<CharOf(CodeOf("0") + k)>>
    ELSE NumberToString(k \div 10) \o <<CharOf(CodeOf("0") + (k % 10))>>

----------------------------------------------------------------------------
(* URLSearchParams *)

\* the value of a hexadecimal digit, -1 for any other character
HexVal(c) ==
    IF IsDigit(c) THEN CodeOf(c) - CodeOf("0")
    ELSE IF CodeOf(c) >= CodeOf("A") /\ CodeOf(c) <= CodeOf("F")
         THEN CodeOf(c) - CodeOf("A") + 10
    ELSE IF CodeOf(c) >= CodeOf("a") /\ CodeOf(c) <= CodeOf("f")
         THEN CodeOf(c) - CodeOf("a") + 10
    ELSE -1

\* percent-decoding: "%" and two hexadecimal digits are one byte, any other
\* "%" stays as it is
RECURSIVE PercentDecode(_)
PercentDecode(s) ==
    IF s = <<>> THEN <<>>
    ELSE IF s[1] = "%" /\ Len(s) >= 3 /\ HexVal(s[2]) >= 0 /\ HexVal(s[3]) >= 0
         THEN <<CharOf(16 * HexVal(s[2]) + HexVal(s[3]))>>
              \o PercentDecode(SubSeq(s, 4, Len(s)))
    ELSE <<s[1]>> \o PercentDecode(Tail(s))

\* "+" stands for a space in a form-urlencoded name or value
PlusToSpace(s) == [i \in 1..Len(s) |-> IF s[i] = "+" THEN " " ELSE s[i]]

FormDecode(s) == PercentDecode(PlusToSpace(s))

\* one "name=value" piece: split at its first "=", the value is empty when
\* there is none
ParsePair(piece) ==
    LET i == IndexOf(piece, "=")
    IN  IF i = 0 THEN <<FormDecode(piece), <<>>>>
        ELSE <<FormDecode(SubSeq(piece, 1, i - 1)),
               FormDecode(SubSeq(piece, i + 1, Len(piece)))>>

\* new URLSearchParams(queryString): the list of (name, value) pairs of the
\* non-empty pieces between "&"
URLSearchParams(queryString) ==
    LET pieces == split(queryString, "&")
        kept == SelectSeq(pieces, LAMBDA piece : piece # <<>>)
    IN  [i \in 1..Len(kept) |-> ParsePair(kept[i])]

\* params.get(name): the value of the first pair of that name, or null
get(params, name) ==
    IF \E i \in 1..Len(params) : params[i][1] = name
    THEN params[CHOOSE i \in 1..Len(params) :
                    /\ params[i][1] = name
                    /\ \A j \in 1..(i - 1) : params[j][1] # name][2]
    ELSE null

----------------------------------------------------------------------------
(* parseInt *)

\* the value of the longest prefix of decimal digits of s read after acc
RECURSIVE ReadDigits(_, _)
ReadDigits(s, acc) ==
    IF s # <<>> /\ IsDigit(s[1])
    THEN ReadDigits(Tail(s), 10 * acc + (CodeOf(s[1]) - CodeOf("0")))
    ELSE acc

\* s without its leading white space
RECURSIVE TrimStart(_)
TrimStart(s) == IF s # <<>> /\ s[1] = " " THEN TrimStart(Tail(s)) ELSE s

\* parseInt(str, 10): leading white space, an optional sign, then the
\* longest run of digits; NaN when no digit follows
parseInt(str) ==
    LET t == TrimStart(str)
        signed == t # <<>> /\ (t[1] = "-" \/ t[1] = "+")
        negative == t # <<>> /\ t[1] = "-"
        body == IF signed THEN Tail(t) ELSE t
    IN  IF body = <<>> \/ ~IsDigit(body[1]) THEN NaN
        ELSE Num(IF negative THEN 0 - ReadDigits(body, 0)
                             ELSE ReadDigits(body, 0))

----------------------------------------------------------------------------
(* src/src/deep-linking/DeepLinkUtils.js *)

URL_SCHEME == <<"c","o","m",".","h","a","m","2","k",".","p","o","l","o",":","/","/">>

sota == <<"s","o","t","a">>
pota == <<"p","o","t","a">>
wwff == <<"w","w","f","f">>
gma == <<"g","m","a">>
wca == <<"w","c","a">>
zlota == <<"z","l","o","t","a">>

Activation == <<"A","c","t","i","v","a","t","i","o","n">>

\* the own keys of TYPE_TO_ACTIVATION and of TYPE_TO_HUNTING
RegistryCodes == {sota, pota, wwff, gma, wca, zlota}

\* What a plain object literal inherits from Object.prototype under a name
\* that toLowerCase can return: the constructor function and the prototype
\* object itself.  Both are objects, so neither is a string.
ObjectFunction == <<"[Function: Object]">>
ObjectPrototypeObject == <<"[Object: null prototype] {}">>

ObjectPrototype(key) ==
    IF key = <<"c","o","n","s","t","r","u","c","t","o","r">> THEN ObjectFunction
    ELSE IF key = <<"_","_","p","r","o","t","o","_","_">> THEN ObjectPrototypeObject
    ELSE undefined

\* TYPE_TO_ACTIVATION[key]: the own property, else the inherited one
TYPE_TO_ACTIVATION(key) ==
    IF key \in RegistryCodes THEN key \o Activation
    ELSE ObjectPrototype(key)

\* TYPE_TO_HUNTING holding the activation types
TYPE_TO_HUNTING_Activation(key) == TYPE_TO_ACTIVATION(key)

\* TYPE_TO_HUNTING[key]: the own property, else the inherited one
TYPE_TO_HUNTING(key) ==
    IF key \in RegistryCodes THEN key
    ELSE ObjectPrototype(key)

\* parseFrequency(freqStr)
parseFrequency(freqStr) ==
    IF ~Truthy(freqStr) THEN NumUndefined
    ELSE LET hz == parseInt(freqStr)
         IN  IF hz = NaN THEN NumUndefined ELSE hz

NullResult == [tag |-> "null"]

\* ref || sig
CompletePairEither(ref, sig) == Truthy(ref) \/ Truthy(sig)

\* hasMyRef, hasTheirRef: ref && sig
CompletePair(ref, sig) == Truthy(ref) /\ Truthy(sig)

\* const [, queryString] = urlPath.split('?'): the second piece, undefined
\* when there is one piece only
QueryStringOf(urlPath) ==
    LET pieces == split(urlPath, "?")
    IN  IF Len(pieces) >= 2 THEN pieces[2] ELSE undefined

\* parseDeepLinkURL(url), from `const params` on
ParseQuery(queryString) ==
    LET params == URLSearchParams(queryString)
        myRef == OrUndefined(get(params, <<"m","y","R","e","f">>))
        mySig == OrUndefined(OptLower(get(params, <<"m","y","S","i","g">>)))
        theirRef == OrUndefined(get(params, <<"t","h","e","i","r","R","e","f">>))
        theirSig == OrUndefined(OptLower(get(params, <<"t","h","e","i","r","S","i","g">>)))
        hasMyRef == CompletePair(myRef, mySig)
        hasTheirRef == CompletePair(theirRef, theirSig)
        timeStr == get(params, <<"t","i","m","e">>)
    IN  IF ~hasMyRef /\ ~hasTheirRef THEN NullResult
        ELSE IF Truthy(mySig) /\ ~Truthy(TYPE_TO_ACTIVATION(mySig)) THEN NullResult
        ELSE IF Truthy(theirSig) /\ ~Truthy(TYPE_TO_ACTIVATION(theirSig)) THEN NullResult
        ELSE [tag |-> "object",
              myRef |-> myRef,
              mySig |-> mySig,
              theirRef |-> theirRef,
              theirSig |-> theirSig,
              freq |-> parseFrequency(get(params, <<"f","r","e","q">>)),
              mode |-> OrUndefined(OptUpper(get(params, <<"m","o","d","e">>))),
              time |-> IF Truthy(timeStr) THEN parseInt(timeStr) ELSE NumUndefined,
              myCall |-> OrUndefined(OptUpper(get(params, <<"m","y","C","a","l","l">>))),
              theirCall |-> OrUndefined(OptUpper(get(params, <<"t","h","e","i","r","C","a","l","l">>)))]

\* parseDeepLinkURL(url)
parseDeepLinkURL(u) ==
    IF ~startsWith(u, URL_SCHEME) THEN NullResult
    ELSE LET urlPath == slice(u, Len(URL_SCHEME))
             queryString == QueryStringOf(urlPath)
         IN  IF ~Truthy(queryString) THEN NullResult
             ELSE ParseQuery(queryString)

\* bandForFrequency of @ham2k/lib-operation-data, as the repository's tests
\* define it
bandForFrequency(freq) ==
    IF freq >= 14000000 /\ freq < 14350000 THEN <<"2","0","m">>
    ELSE IF freq >= 7000000 /\ freq < 7300000 THEN <<"4","0","m">>
    ELSE IF freq >= 21000000 /\ freq < 21450000 THEN <<"1","5","m">>
    ELSE undefined

\* modeForFrequency of @ham2k/lib-operation-data, as the repository's tests
\* define it
modeForFrequency(freq) ==
    IF freq >= 14000000 /\ freq < 14100000 THEN <<"C","W">>
    ELSE IF freq >= 14100000 /\ freq < 14350000 THEN <<"S","S","B">>
    ELSE IF freq >= 7000000 /\ freq < 7050000 THEN <<"C","W">>
    ELSE IF freq >= 7050000 /\ freq < 7300000 THEN <<"S","S","B">>
    ELSE <<"S","S","B">>

NoRefs == [tag |-> "undefined", items |-> <<>>]

\* the _suggestedKey of a call at clock reading now
SuggestedKeyAt(now) == <<"d","e","e","p","l","i","n","k","-">> \o NumberToString(now)

\* the mode derived from freq winning over the mode given
ModeOfDerivedFirst(freq, mode) ==
    IF TruthyNum(freq) THEN modeForFrequency(freq.n)
    ELSE IF Truthy(mode) THEN mode ELSE undefined

\* qso.mode of buildSuggestedQSO: the mode derived from freq, then the mode
\* given
ModeOf(freq, mode) ==
    LET derived == IF TruthyNum(freq) /\ ~Truthy(mode) THEN modeForFrequency(freq.n)
                   ELSE undefined
    IN  IF Truthy(mode) THEN mode ELSE derived

\* refs set as soon as theirRef is given
RefsOfRefOnly(theirRef, theirSig) ==
    IF Truthy(theirRef)
    THEN [tag |-> "array",
          items |-> <<[type |-> TYPE_TO_HUNTING(theirSig), ref |-> theirRef]>>]
    ELSE NoRefs

\* qso.refs of buildSuggestedQSO
RefsOf(theirRef, theirSig) ==
    IF Truthy(theirRef) /\ Truthy(theirSig)
    THEN [tag |-> "array",
          items |-> <<[type |-> TYPE_TO_HUNTING(theirSig), ref |-> theirRef]>>]
    ELSE NoRefs

\* buildSuggestedQSO({ theirRef, theirSig, freq, mode, time, myCall, theirCall })
\* called when Date.now() is now; a field never assigned is undefined
buildSuggestedQSO(a, now) ==
    [tag |-> "object",
     suggestedKey |-> SuggestedKeyAt(now),
     their |-> [call |-> IF Truthy(a.theirCall) THEN a.theirCall ELSE undefined],
     our |-> [call |-> IF Truthy(a.myCall) THEN a.myCall ELSE undefined],
     freq |-> IF TruthyNum(a.freq) THEN a.freq ELSE NumUndefined,
     band |-> IF TruthyNum(a.freq) THEN bandForFrequency(a.freq.n) ELSE undefined,
     mode |-> ModeOf(a.freq, a.mode),
     startAtMillis |-> IF TruthyNum(a.time) THEN a.time ELSE NumUndefined,
     refs |-> RefsOf(a.theirRef, a.theirSig)]

\* the argument handleDeepLink builds from a parsed link
ArgsOfParsed(r) ==
    [theirRef |-> r.theirRef, theirSig |-> r.theirSig, freq |-> r.freq,
     mode |-> r.mode, time |-> r.time, myCall |-> r.myCall,
     theirCall |-> r.theirCall]

----------------------------------------------------------------------------
(* The links a companion application sends.  A link is the list of its     *)
(* (name, value) pairs, each value the text the sender means, and the way  *)
(* the sender writes them into a URL.                                      *)

MaxExtras == 1

k_myRef == <<"m","y","R","e","f">>
k_mySig == <<"m","y","S","i","g">>
k_theirRef == <<"t","h","e","i","r","R","e","f">>
k_theirSig == <<"t","h","e","i","r","S","i","g">>
k_freq == <<"f","r","e","q">>
k_mode == <<"m","o","d","e">>
k_time == <<"t","i","m","e">>
k_myCall == <<"m","y","C","a","l","l">>
k_theirCall == <<"t","h","e","i","r","C","a","l","l">>

RefA == <<"K","-","1">>
RefB == <<"W","6","/","c","t">>
RefC == <<"a"," ","B">>
iota == <<"i","o","t","a">>
Constructor == <<"C","o","n","s","t","r","u","c","t","o","r">>

\* the (ref, sig) pair of one side, as a list of (name, value) pairs
PairOptions(k_ref, k_sig, sigs) ==
    {<<>>, <<<<k_ref, RefA>>>>, <<<<k_sig, sigs[1]>>>>, <<<<k_sig, iota>>>>}
    \cup {<<<<k_ref, RefA>>, <<k_sig, sigs[i]>>>> : i \in 1..Len(sigs)}
    \cup {<<<<k_sig, sigs[1]>>, <<k_ref, RefB>>>>, <<<<k_ref, RefC>>, <<k_sig, sigs[2]>>>>}
    \cup {<<<<k_ref, RefA>>, <<k_sig, iota>>>>,
          <<<<k_ref, RefA>>, <<k_sig, Constructor>>>>,
          <<<<k_ref, RefA>>, <<k_sig, <<>>>>>>,
          <<<<k_ref, <<>>>>, <<k_sig, sigs[1]>>>>}

MyOptions == PairOptions(k_myRef, k_mySig, <<sota, <<"P","o","t","a">>, <<"W","C","A">>>>)
TheirOptions == PairOptions(k_theirRef, k_theirSig, <<wwff, <<"G","m","a">>, <<"Z","L","O","T","A">>>>)

ExtraOptions ==
    {<<k_freq, v>> : v \in {<<"1","4","2","8","5","0","0","0">>, <<"0">>, <<"-","5">>,
                            <<"7","x">>, <<"a","b","c">>, <<>>}}
    \cup {<<k_mode, v>> : v \in {<<"c","w">>, <<"S","s","b">>, <<>>}}
    \cup {<<k_time, <<"1","7","0","4">>>>, <<k_time, <<"x">>>>,
          <<k_myCall, <<"n","0","c","a","l","l">>>>,
          <<k_theirCall, <<"k","6","T","e","s","t">>>>,
          <<<<"f","o","o">>, <<"1">>>>}

RECURSIVE SeqsUpTo(_, _)
SeqsUpTo(S, n) ==
    IF n = 0 THEN {<<>>}
    ELSE LET shorter == SeqsUpTo(S, n - 1)
         IN  shorter \cup {Append(q, x) : q \in shorter, x \in S}

\* how the sender frames the pairs:
\*   "plain"  scheme qso ? pairs, values written as they are
\*   "form"   scheme qso ? pairs, values form-urlencoded
\*   "tail"   as plain, followed by a second "?" and more text
\*   "amp"    scheme qso & pairs: no "?" at all
\*   "empty"  scheme qso ?? pairs: nothing between the first two "?"
\*   "solo"   another scheme of the same length
\*   "https"  an https URL
FullFrames == {"plain", "form", "tail"}
EdgeFrames == {"amp", "empty", "solo", "https"}

Links ==
    [frame : FullFrames, my : MyOptions, their : TheirOptions,
     extras : SeqsUpTo(ExtraOptions, MaxExtras)]
    \cup [frame : EdgeFrames, my : MyOptions, their : {<<>>},
          extras : SeqsUpTo({<<k_mode, <<"c","w">>>>}, MaxExtras)]

PairsOf(l) == l.my \o l.their \o l.extras

\* the value the link gives to a name: that of its first pair of that name,
\* null when it has none
LinkValue(l, name) == get(PairsOf(l), name)

HexDigits == <<"0","1","2","3","4","5","6","7","8","9","A","B","C","D","E","F">>

\* application/x-www-form-urlencoded serializing of one character
FormEncodeChar(c) ==
    IF IsUpper(c) \/ IsLower(c) \/ IsDigit(c) \/ c \in {"*", "-", ".", "_"} THEN <<c>>
    ELSE IF c = " " THEN <<"+">>
    ELSE <<"%", HexDigits[(CodeOf(c) \div 16) + 1], HexDigits[(CodeOf(c) % 16) + 1]>>

RECURSIVE FormEncode(_)
FormEncode(s) ==
    IF s = <<>> THEN <<>> ELSE FormEncodeChar(s[1]) \o FormEncode(Tail(s))

WriteValue(frame, v) == IF frame = "form" THEN FormEncode(v) ELSE v

RECURSIVE WritePairs(_, _)
WritePairs(frame, pairs) ==
    IF pairs = <<>> THEN <<>>
    ELSE pairs[1][1] \o <<"=">> \o WriteValue(frame, pairs[1][2])
         \o (IF Len(pairs) > 1 THEN <<"&">> ELSE <<>>)
         \o WritePairs(frame, Tail(pairs))

OtherScheme == <<"c","o","m",".","h","a","m","2","k",".","s","o","l","o",":","/","/">>
HttpsScheme == <<"h","t","t","p","s",":","/","/","x",".","y","/">>
qsoPath == <<"q","s","o">>

\* the URL string of a link
WriteURL(l) ==
    LET q == WritePairs(l.frame, PairsOf(l))
    IN  CASE l.frame \in {"plain", "form"} -> URL_SCHEME \o qsoPath \o <<"?">> \o q
          [] l.frame = "tail" -> URL_SCHEME \o qsoPath \o <<"?">> \o q \o <<"?","x","=","1">>
          [] l.frame = "amp" -> URL_SCHEME \o qsoPath \o <<"&">> \o q
          [] l.frame = "empty" -> URL_SCHEME \o qsoPath \o <<"?","?">> \o q
          [] l.frame = "solo" -> OtherScheme \o qsoPath \o <<"?">> \o q
          [] l.frame = "https" -> HttpsScheme \o qsoPath \o <<"?">> \o q

NoLink == [frame |-> "none"]
NoArgs == [tag |-> "none"]

\* no useDeepLinkHandler is mounted
HookNotMounted ==
    /\ processedUrlRef = null
    /\ initialUrlCheckedRef = FALSE
    /\ operations = <<>>
    /\ handlerOps = <<>>
    /\ initialURL = null
    /\ tasks = {}
    /\ deliveries = <<>>
    /\ parseLog = <<>>
    /\ opLog = <<>>
    /\ navLog = <<>>

----------------------------------------------------------------------------
(* Spec: every link is written as a URL and parsed.                        *)

Init ==
    /\ link \in Links
    /\ url = WriteURL(link)
    /\ parsed = NotCalled
    /\ args = NoArgs
    /\ qso = NotCalled
    /\ clock = 0
    /\ keys = <<>>
    /\ HookNotMounted

Parse ==
    /\ parsed = NotCalled
    /\ parsed' = parseDeepLinkURL(url)
    /\ UNCHANGED <<link, url, args, qso, clock, keys, hookVars>>

Next == Parse

Spec == Init /\ [][Next]_vars

----------------------------------------------------------------------------
(* SpecBuild: buildSuggestedQSO is called, as the tests call it, with any  *)
(* argument, and called again with the same argument, while the clock      *)
(* advances.                                                               *)

MaxCalls == 2
MaxClock == 2

TEST == <<"T","E","S","T">>

BuildArgs ==
    [theirRef : {undefined, TEST, RefB},
     theirSig : {undefined, sota, pota, wwff, gma, wca, zlota, iota},
     freq : {NumUndefined, Num(0), Num(-5), Num(14035000), Num(14285000), Num(7030000)},
     mode : {undefined, <<"C","W">>, <<"F","T","8">>},
     time : {NumUndefined, Num(1704)},
     myCall : {undefined, <<"N","0","C","A","L","L">>},
     theirCall : {undefined, <<"K","6","T","E","S","T">>}]

InitBuild ==
    /\ link = NoLink
    /\ url = <<>>
    /\ parsed = NotCalled
    /\ args \in BuildArgs
    /\ qso = NotCalled
    /\ clock = 0
    /\ keys = <<>>
    /\ HookNotMounted

Build ==
    /\ Len(keys) < MaxCalls
    /\ qso' = buildSuggestedQSO(args, clock)
    /\ keys' = Append(keys, qso'.suggestedKey)
    /\ UNCHANGED <<link, url, parsed, args, clock, hookVars>>

\* a millisecond passes
Tick ==
    /\ clock < MaxClock
    /\ clock' = clock + 1
    /\ UNCHANGED <<link, url, parsed, args, qso, keys, hookVars>>

NextBuild == Build \/ Tick

SpecBuild == InitBuild /\ [][NextBuild]_vars

----------------------------------------------------------------------------
(* src/src/deep-linking/DeepLinkHandler.js                                 *)

NoOp == [uuid |-> 0, refs |-> <<>>, deleted |-> FALSE]
NoRef == [type |-> undefined, ref |-> undefined]

\* findRef(op, type) of ../tools/refTools: the first ref of op of that type
findRef(op, type) ==
    IF \E i \in 1..Len(op.refs) : op.refs[i].type = type
    THEN op.refs[CHOOSE i \in 1..Len(op.refs) :
                    /\ op.refs[i].type = type
                    /\ \A j \in 1..(i - 1) : op.refs[j].type # type]
    ELSE NoRef

\* the predicate of the find over Object.values(operations)
MatchesRef(op, activationType, myRef) ==
    /\ ~op.deleted
    /\ findRef(op, activationType) # NoRef
    /\ findRef(op, activationType).ref = myRef

\* existingOp: the first operation of ops that matches, NoOp for undefined
ExistingOp(ops, activationType, myRef) ==
    IF \E i \in 1..Len(ops) : MatchesRef(ops[i], activationType, myRef)
    THEN ops[CHOOSE i \in 1..Len(ops) :
                /\ MatchesRef(ops[i], activationType, myRef)
                /\ \A j \in 1..(i - 1) : ~MatchesRef(ops[j], activationType, myRef)]
    ELSE NoOp

\* a pending promise or timer.  kind is
\*   "getInitialURL"     await Linking.getInitialURL()
\*   "timer"             setTimeout(() => handleDeepLink(url), 500)
\*   "addNewOperation"   await dispatch(addNewOperation(...))
\*   "setOperationData"  await dispatch(setOperationData(...))
\*   "resume"            findOrCreateOperation has returned op; handleDeepLink
\*                       is to go on after its await
Task(id, kind, u, ops, refs, isNew, op, q) ==
    [id |-> id, kind |-> kind, url |-> u, ops |-> ops, refs |-> refs,
     isNew |-> isNew, op |-> op, qso |-> q]

\* findOrCreateOperation({ myRef, mySig, operations, dispatch }) up to its
\* first await, called by the handleDeepLink call number id
findOrCreateOperation(id, u, r, ops, q) ==
    IF ~Truthy(r.myRef) \/ ~Truthy(r.mySig)
    THEN Task(id, "addNewOperation", u, <<>>, <<>>, FALSE, NoOp, q)
    ELSE LET activationType == TYPE_TO_ACTIVATION(r.mySig)
             existingOp == ExistingOp(ops, activationType, r.myRef)
         IN  IF existingOp # NoOp
             THEN Task(id, "resume", u, <<>>, <<>>, FALSE, existingOp, q)
             ELSE Task(id, "addNewOperation", u, <<>>,
                       <<[type |-> activationType, ref |-> r.myRef]>>, TRUE, NoOp, q)

\* processedUrlRef.current never stopping a URL
AlreadyProcessedNever(ref, u) == FALSE

\* processedUrlRef.current === url
AlreadyProcessed(ref, u) == ref = u

\* handleDeepLink(url) of a closure over the operations ops, up to its
\* await; rest is what is pending beside the caller
handleDeepLink(u, ops, rest) ==
    /\ deliveries' = Append(deliveries, u)
    /\ IF ~Truthy(u) \/ ~startsWith(u, URL_SCHEME)
       THEN /\ tasks' = rest
            /\ UNCHANGED <<processedUrlRef, parseLog, opLog>>
       ELSE IF AlreadyProcessed(processedUrlRef, u)
       THEN /\ tasks' = rest
            /\ UNCHANGED <<processedUrlRef, parseLog, opLog>>
       ELSE /\ processedUrlRef' = u
            /\ parseLog' = Append(parseLog, u)
            /\ LET r == parseDeepLinkURL(u)
               IN  IF r = NullResult
                   THEN /\ tasks' = rest
                        /\ UNCHANGED opLog
                   ELSE /\ opLog' = Append(opLog, u)
                        /\ tasks' = rest \cup
                              {findOrCreateOperation(
                                  Len(deliveries) + 1, u, r, ops,
                                  buildSuggestedQSO(ArgsOfParsed(r), clock))}

----------------------------------------------------------------------------
(* What the claims speak of, stated on the link that was sent and not on   *)
(* what the parser made of it.                                             *)

Uppers == <<"A","B","C","D","E","F","G","H","I","J","K","L","M",
            "N","O","P","Q","R","S","T","U","V","W","X","Y","Z">>
Lowers == <<"a","b","c","d","e","f","g","h","i","j","k","l","m",
            "n","o","p","q","r","s","t","u","v","w","x","y","z">>

LowerText(s) ==
    [i \in 1..Len(s) |->
        IF \E k \in 1..Len(Uppers) : Uppers[k] = s[i]
        THEN Lowers[CHOOSE k \in 1..Len(Uppers) : Uppers[k] = s[i]]
        ELSE s[i]]

UpperText(s) ==
    [i \in 1..Len(s) |->
        IF \E k \in 1..Len(Lowers) : Lowers[k] = s[i]
        THEN Uppers[CHOOSE k \in 1..Len(Lowers) : Lowers[k] = s[i]]
        ELSE s[i]]

\* a value is present when the link has the name with a non-empty value
Present(v) == v # null /\ v # <<>>

LinkComplete(l, k_ref, k_sig) ==
    Present(LinkValue(l, k_ref)) /\ Present(LinkValue(l, k_sig))

LinkPartial(l, k_ref, k_sig) ==
    Present(LinkValue(l, k_ref)) # Present(LinkValue(l, k_sig))

UnknownSig(v) == Present(v) /\ LowerText(v) \notin RegistryCodes

\* the link is written with the scheme of the application
SchemeWritten(l) == l.frame \notin {"solo", "https"}

\* the URL has a "?" and text after its first "?"
QueryAfterFirstMark(u) == IndexOf(u, "?") > 0 /\ IndexOf(u, "?") < Len(u)

AllDigits(v) == v # <<>> /\ \A i \in 1..Len(v) : v[i] \in {"0","1","2","3","4","5","6","7","8","9"}

RECURSIVE DecimalValue(_)
DecimalValue(v) ==
    IF v = <<>> THEN 0
    ELSE 10 * DecimalValue(SubSeq(v, 1, Len(v) - 1))
         + (CHOOSE d \in 0..9 : HexDigits[d + 1] = v[Len(v)])

\* what a field of the result is to be: the value as f writes it when the
\* link has one, undefined when it has none
Expected(v, f(_)) == IF Present(v) THEN f(v) ELSE undefined
Same(s) == s

----------------------------------------------------------------------------
(* Claims about parseDeepLinkURL, under Spec                               *)

\* C1: parseDeepLinkURL returns null for every URL whose mySig or theirSig
\* is present and, lowercased, is none of sota, pota, wwff, gma, wca, zlota,
\* also when the other pair is complete and valid.
C1_UnknownSigIsNull ==
    (/\ parsed # NotCalled
     /\ \/ UnknownSig(LinkValue(link, k_mySig))
        \/ UnknownSig(LinkValue(link, k_theirSig)))
    => parsed = NullResult

\* C2 as stated: parseDeepLinkURL returns null whenever one pair has exactly
\* one member present, also beside a complete and valid other pair; every
\* non-null result has both members of a pair defined or both undefined.
C2_PartialPairIsNull ==
    /\ (/\ parsed # NotCalled
        /\ \/ LinkPartial(link, k_myRef, k_mySig)
           \/ LinkPartial(link, k_theirRef, k_theirSig))
       => parsed = NullResult
    /\ parsed.tag = "object"
       => /\ Truthy(parsed.myRef) = Truthy(parsed.mySig)
          /\ Truthy(parsed.theirRef) = Truthy(parsed.theirSig)

\* C2 as amended: parseDeepLinkURL returns null whenever neither pair has
\* both members present, so whenever a pair with exactly one member stands
\* beside no complete pair; every non-null result has at least one pair with
\* both members defined.
C2_NoCompletePairIsNull ==
    /\ (/\ parsed # NotCalled
        /\ ~LinkComplete(link, k_myRef, k_mySig)
        /\ ~LinkComplete(link, k_theirRef, k_theirSig))
       => parsed = NullResult
    /\ parsed.tag = "object"
       => \/ Truthy(parsed.myRef) /\ Truthy(parsed.mySig)
          \/ Truthy(parsed.theirRef) /\ Truthy(parsed.theirSig)

\* a link with the scheme whose only pair has one member was parsed to null
C2_Witness ==
    /\ link.frame = "plain"
    /\ LinkPartial(link, k_myRef, k_mySig)
    /\ link.their = <<>>
    /\ parsed = NullResult

\* C3: parseDeepLinkURL returns a non-null result only if the URL starts
\* with the scheme, has text after its first "?", and at least one of the
\* two pairs has both members present; in every other case it returns null.
C3_NonNullOnlyIf ==
    parsed.tag = "object"
    => /\ SchemeWritten(link)
       /\ QueryAfterFirstMark(url)
       /\ \/ LinkComplete(link, k_myRef, k_mySig)
          \/ LinkComplete(link, k_theirRef, k_theirSig)

\* a link with a complete pair written under another scheme was parsed to
\* null
C3_Witness ==
    /\ link.frame = "solo"
    /\ LinkComplete(link, k_myRef, k_mySig)
    /\ parsed = NullResult

\* C4: in every non-null result mySig and theirSig are the lowercased value
\* of the link, mode, myCall and theirCall the uppercased value, and myRef
\* and theirRef the value itself, its case unchanged; a name the link does
\* not have, or has with an empty value, is undefined in the result.
C4_Normalized ==
    parsed.tag = "object"
    => /\ parsed.mySig = Expected(LinkValue(link, k_mySig), LowerText)
       /\ parsed.theirSig = Expected(LinkValue(link, k_theirSig), LowerText)
       /\ parsed.mode = Expected(LinkValue(link, k_mode), UpperText)
       /\ parsed.myCall = Expected(LinkValue(link, k_myCall), UpperText)
       /\ parsed.theirCall = Expected(LinkValue(link, k_theirCall), UpperText)
       /\ parsed.myRef = Expected(LinkValue(link, k_myRef), Same)
       /\ parsed.theirRef = Expected(LinkValue(link, k_theirRef), Same)

\* a form-encoded link in mixed case was parsed
C4_Witness ==
    /\ link.frame = "form"
    /\ parsed.tag = "object"
    /\ LinkValue(link, k_myRef) = RefC /\ parsed.myRef = RefC
    /\ LinkValue(link, k_mySig) = <<"P","o","t","a">> /\ parsed.mySig = pota
    /\ LinkValue(link, k_mode) = <<"S","s","b">> /\ parsed.mode = <<"S","S","B">>

\* C9: in every non-null result freq is absent or the non-negative integer
\* written in the freq parameter; a freq parameter that is not a valid
\* integer gives an absent freq, and never a null result.
C9_FreqIsTheIntegerWritten ==
    parsed.tag = "object"
    => LET v == LinkValue(link, k_freq)
       IN  IF Present(v) /\ AllDigits(v)
           THEN parsed.freq = Num(DecimalValue(v))
           ELSE parsed.freq = NumUndefined

----------------------------------------------------------------------------
(* Claims about buildSuggestedQSO, under SpecBuild                         *)

\* the hunting tag of a code of the registry is the code itself; a name
\* outside the registry, iota among them, has none
HuntingTag(sig) == IF sig \in RegistryCodes THEN sig ELSE undefined

C7_ModeRule ==
    qso.tag = "object"
    => /\ Truthy(args.mode) => qso.mode = args.mode
       /\ (~Truthy(args.mode) /\ args.freq.tag = "num")
          => /\ qso.mode = modeForFrequency(args.freq.n)
             /\ qso.band = bandForFrequency(args.freq.n)
       /\ (~Truthy(args.mode) /\ args.freq.tag # "num") => qso.mode = undefined

\* C7 as amended: the output mode is the input mode whenever a mode is
\* given, for every freq; with no mode and a freq other than 0 the output
\* mode is modeForFrequency(freq) and band is bandForFrequency(freq); with
\* no mode and a freq that is absent or 0 the output has no mode, and no
\* band.
C7_ModeRuleNonZero ==
    qso.tag = "object"
    => /\ Truthy(args.mode) => qso.mode = args.mode
       /\ (~Truthy(args.mode) /\ args.freq.tag = "num" /\ args.freq.n # 0)
          => /\ qso.mode = modeForFrequency(args.freq.n)
             /\ qso.band = bandForFrequency(args.freq.n)
       /\ (~Truthy(args.mode) /\ (args.freq.tag # "num" \/ args.freq.n = 0))
          => /\ qso.mode = undefined
             /\ qso.band = undefined

\* a call with a freq of the CW part of 20m and no mode
C7_Witness ==
    /\ qso.tag = "object"
    /\ args.mode = undefined
    /\ args.freq = Num(14035000)
    /\ qso.mode = <<"C","W">>
    /\ qso.band = <<"2","0","m">>

DeeplinkPrefix == <<"d","e","e","p","l","i","n","k","-">>

\* C8: any two calls of buildSuggestedQSO return different _suggestedKey
\* values; each key is "deeplink-" followed by the clock reading of its
\* call, which is no later than the clock is now.
C8_KeysDiffer ==
    /\ \A i \in 1..Len(keys) : \A j \in 1..Len(keys) :
          i # j => keys[i] # keys[j]
    /\ \A i \in 1..Len(keys) :
          /\ SubSeq(keys[i], 1, Len(DeeplinkPrefix)) = DeeplinkPrefix
          /\ AllDigits(SubSeq(keys[i], Len(DeeplinkPrefix) + 1, Len(keys[i])))
          /\ DecimalValue(SubSeq(keys[i], Len(DeeplinkPrefix) + 1, Len(keys[i])))
                <= clock

----------------------------------------------------------------------------
(* SpecHandler: one useDeepLinkHandler is mounted; the platform resolves    *)
(* the initial URL and sends 'url' events; the store runs the thunks.      *)

MaxDeliveries == 2

HandlerLinks ==
    {[frame |-> "plain", my |-> <<<<k_myRef, RefA>>, <<k_mySig, pota>>>>,
      their |-> <<>>, extras |-> <<>>],
     [frame |-> "plain", my |-> <<>>,
      their |-> <<<<k_theirRef, RefB>>, <<k_theirSig, sota>>>>, extras |-> <<>>],
     [frame |-> "plain", my |-> <<<<k_myRef, RefA>>>>,
      their |-> <<>>, extras |-> <<>>],
     [frame |-> "https", my |-> <<<<k_myRef, RefA>>, <<k_mySig, pota>>>>,
      their |-> <<>>, extras |-> <<>>],
     [frame |-> "plain", my |-> <<<<k_myRef, RefA>>, <<k_mySig, pota>>>>,
      their |-> <<>>, extras |-> <<<<k_mode, <<"c","w">>>>>>]}

HandlerUrls == {WriteURL(l) : l \in HandlerLinks}

\* what the application was opened from: no link, a link of the scheme with
\* a complete pair, or a URL of another scheme
InitialUrls ==
    {null} \cup {WriteURL(l) : l \in {h \in HandlerLinks :
                                        /\ h.extras = <<>>
                                        /\ Len(h.my) = 2}}

\* an operation that activates RefA as pota, made before the links arrive
OldOperation ==
    [uuid |-> 1, refs |-> <<[type |-> TYPE_TO_ACTIVATION(pota), ref |-> RefA]>>,
     deleted |-> FALSE]

InitHandler ==
    /\ link = NoLink
    /\ url = <<>>
    /\ parsed = NotCalled
    /\ args = NoArgs
    /\ qso = NotCalled
    /\ clock = 0
    /\ keys = <<>>
    /\ processedUrlRef = null
    /\ initialUrlCheckedRef = FALSE
    /\ operations \in {<<>>, <<OldOperation>>}
    /\ handlerOps = <<>>
    /\ initialURL \in InitialUrls
    /\ tasks = {}
    /\ deliveries = <<>>
    /\ parseLog = <<>>
    /\ opLog = <<>>
    /\ navLog = <<>>

pureVars == <<link, url, parsed, args, qso, clock, keys>>

\* the component renders with the operations of the store and its effect
\* runs: checkInitialURL once, then the 'url' listener of the new
\* handleDeepLink replaces the old one
EffectRun ==
    /\ ~initialUrlCheckedRef \/ handlerOps # operations
    /\ handlerOps' = operations
    /\ initialUrlCheckedRef' = TRUE
    /\ tasks' = IF initialUrlCheckedRef THEN tasks
                ELSE tasks \cup {Task(0, "getInitialURL", null, operations,
                                      <<>>, FALSE, NoOp, NotCalled)}
    /\ UNCHANGED <<pureVars, processedUrlRef, operations, initialURL,
                   deliveries, parseLog, opLog, navLog>>

\* Linking.getInitialURL() resolves
InitialURLResolved ==
    \E t \in tasks :
        /\ t.kind = "getInitialURL"
        /\ tasks' = IF Truthy(initialURL)
                    THEN (tasks \ {t}) \cup
                         {Task(0, "timer", initialURL, t.ops, <<>>, FALSE,
                               NoOp, NotCalled)}
                    ELSE tasks \ {t}
        /\ UNCHANGED <<pureVars, processedUrlRef, initialUrlCheckedRef,
                       operations, handlerOps, initialURL, deliveries,
                       parseLog, opLog, navLog>>

\* the 500 ms timer of the initial URL fires
TimerFires ==
    \E t \in tasks :
        /\ t.kind = "timer"
        /\ handleDeepLink(t.url, t.ops, tasks \ {t})
        /\ UNCHANGED <<pureVars, initialUrlCheckedRef, operations, handlerOps,
                       initialURL, navLog>>

\* the platform sends a 'url' event to the listener
UrlEvent ==
    /\ initialUrlCheckedRef
    /\ Len(deliveries) < MaxDeliveries
    /\ \E u \in HandlerUrls : handleDeepLink(u, handlerOps, tasks)
    /\ UNCHANGED <<pureVars, initialUrlCheckedRef, operations, handlerOps,
                   initialURL, navLog>>

\* addNewOperation of ../store/operations resolves: the operation is in the
\* store
AddNewOperationDone ==
    \E t \in tasks :
        /\ t.kind = "addNewOperation"
        /\ LET newOperation == [uuid |-> Len(operations) + 1, refs |-> t.refs,
                                deleted |-> FALSE]
           IN  /\ operations' = Append(operations, newOperation)
               /\ tasks' = (tasks \ {t}) \cup
                     {Task(t.id, IF t.isNew THEN "setOperationData" ELSE "resume",
                           t.url, <<>>, <<>>, t.isNew, newOperation, t.qso)}
        /\ UNCHANGED <<pureVars, processedUrlRef, initialUrlCheckedRef,
                       handlerOps, initialURL, deliveries, parseLog, opLog,
                       navLog>>

\* setOperationData of ../store/operations resolves
SetOperationDataDone ==
    \E t \in tasks :
        /\ t.kind = "setOperationData"
        /\ tasks' = (tasks \ {t}) \cup
              {Task(t.id, "resume", t.url, <<>>, <<>>, FALSE, t.op, t.qso)}
        /\ UNCHANGED <<pureVars, processedUrlRef, initialUrlCheckedRef,
                       operations, handlerOps, initialURL, deliveries,
                       parseLog, opLog, navLog>>

\* a dispatch rejects: handleDeepLink catches and logs the error
DispatchRejects ==
    \E t \in tasks :
        /\ t.kind \in {"addNewOperation", "setOperationData"}
        /\ tasks' = tasks \ {t}
        /\ UNCHANGED <<pureVars, processedUrlRef, initialUrlCheckedRef,
                       operations, handlerOps, initialURL, deliveries,
                       parseLog, opLog, navLog>>

\* navigation.navigate('Operation', { uuid, operation, qso })
Navigate ==
    \E t \in tasks :
        /\ t.kind = "resume"
        /\ navLog' = Append(navLog, [url |-> t.url, uuid |-> t.op.uuid,
                                     operation |-> t.op, qso |-> t.qso])
        /\ tasks' = tasks \ {t}
        /\ UNCHANGED <<pureVars, processedUrlRef, initialUrlCheckedRef,
                       operations, handlerOps, initialURL, deliveries,
                       parseLog, opLog>>

NextHandler ==
    \/ EffectRun
    \/ InitialURLResolved
    \/ TimerFires
    \/ UrlEvent
    \/ AddNewOperationDone
    \/ SetOperationDataDone
    \/ DispatchRejects
    \/ Navigate

SpecHandler == InitHandler /\ [][NextHandler]_vars

----------------------------------------------------------------------------
(* Claims about useDeepLinkHandler, under SpecHandler                      *)

NoRepeat(log) ==
    \A i \in 1..Len(log) : \A j \in 1..Len(log) : i # j => log[i] # log[j]

Count(log, u) == Cardinality({i \in 1..Len(log) : log[i] = u})

NavUrls == [i \in 1..Len(navLog) |-> navLog[i].url]

\* the deliveries written with the scheme, each run of one URL delivered
\* several times in a row taken once
RECURSIVE Collapse(_)
Collapse(log) ==
    IF Len(log) <= 1 THEN log
    ELSE LET front == Collapse(SubSeq(log, 1, Len(log) - 1))
         IN  IF log[Len(log)] = log[Len(log) - 1] THEN front
             ELSE Append(front, log[Len(log)])

WrittenWithScheme(u) == SubSeq(u, 1, Len(URL_SCHEME)) = URL_SCHEME

OperationsFor(mySig, myRef) ==
    {i \in 1..Len(operations) :
        /\ ~operations[i].deleted
        /\ \E k \in 1..Len(operations[i].refs) :
              /\ operations[i].refs[k].type = mySig \o Activation
              /\ operations[i].refs[k].ref = myRef}

\* C11: when links with the same complete (myRef, mySig) are handled, in
\* any interleaving of the handleDeepLink calls and of the store updates,
\* at most one operation is made for that reference: the store never holds
\* two operations, not deleted, whose ref of the activation type of mySig
\* is myRef.
C11_OneOperationPerRef ==
    \A mySig \in RegistryCodes : \A myRef \in {RefA, RefB, RefC} :
        Cardinality(OperationsFor(mySig, myRef)) <= 1

====
